---- MODULE Spec2Model ----
(***************************************************************************)
(* Nested containment list (NClist) of src/src/lib.rs: construction from a *)
(* Vec of intervals, count_overlaps, and the Overlaps and OrderedOverlaps  *)
(* iterators.  Vec positions are 0-based as in the source; At(s, i) reads  *)
(* position i of a sequence.  Option::None is <<>>, Some((a, b)) is        *)
(* <<a, b>>, and a yielded reference &intervals[p] is Some(p) = <<p>>.     *)
(* Where a result is used several times it is bound once, as x \in {e}.    *)
(***************************************************************************)
EXTENDS Integers, Sequences, FiniteSets, TLC

VARIABLES input, pc, panic, intervals, contained, sublists,
          range, count, queue, ov, ov_out, oo, oo_out, its

vars == <<input, pc, panic, intervals, contained, sublists,
          range, count, queue, ov, ov_out, oo, oo_out, its>>

\* ------------------------------------------------------------------ bounds
MaxLen == 3

MaxCoord == 3

Coords == 0..MaxCoord

\* the smaller inputs of the fair and the two-caller specifications
SmallMaxLen == 2

SmallMaxCoord == 2

SmallCoords == 0..SmallMaxCoord

\* the longer inputs of the specification of lists with several sub-lists
WideMaxLen == 4

\* ----------------------------------------------------------------- helpers
None == <<>>

Some(x) == x

At(s, i) == s[i + 1]

InBounds(s, i) == i >= 0 /\ i < Len(s)

\* &s[a..b] of a Vec
Slice(s, a, b) == SubSeq(s, a + 1, b)

\* Ord::cmp on coordinates
Cmp(a, b) == IF a < b THEN "Less" ELSE IF a > b THEN "Greater" ELSE "Equal"

Reverse(o) == IF o = "Less" THEN "Greater" ELSE IF o = "Greater" THEN "Less" ELSE "Equal"

Then(o1, o2) == IF o1 = "Equal" THEN o2 ELSE o1

\* An element of type T: its interval bounds and its identity (the rest of
\* the value), here the position it had in the input Vec.
Elem(s, e, i) == [start |-> s, end |-> e, id |-> i]

\* Range<Coord> values a caller can pass as a query
Ranges == [start : Coords, end : Coords]

\* The Vec<T> whose element at position i - 1 has the bounds b[i]
VecOf(b) == [i \in DOMAIN b |-> Elem(b[i][1], b[i][2], i - 1)]

\* input is a Vec<T> of at most maxlen elements with bounds in coords
IsInput(v, maxlen, coords) ==
    \E n \in 0..maxlen : \E b \in [1..n -> coords \X coords] : v = VecOf(b)

\* variant: only a negative width is refused
AnyInvalid_NegativeOnly(v) == \E i \in 1..Len(v) : v[i].end < v[i].start

\* v.iter().any(|e| e.end() <= e.start())
AnyInvalid(v) == \E i \in 1..Len(v) : v[i].end <= v[i].start

\* variant: the end is compared first, then the start
SortCmp_EndFirst(a, b) == Then(Cmp(a.end, b.end), Cmp(a.start, b.start))

\* the comparator given to sort_by
SortCmp(a, b) == Then(Cmp(a.start, b.start), Reverse(Cmp(a.end, b.end)))

\* variant: x is inserted before the elements it compares Equal to
RECURSIVE InsertSorted_BeforeEqual(_, _)
InsertSorted_BeforeEqual(s, x) ==
    IF s = <<>> THEN <<x>>
    ELSE IF SortCmp(Head(s), x) # "Less" THEN <<x>> \o s
    ELSE <<Head(s)>> \o InsertSorted_BeforeEqual(Tail(s), x)

\* stable insertion of x into the sorted sequence s: after every element
\* that does not compare Greater than x
RECURSIVE InsertSorted(_, _)
InsertSorted(s, x) ==
    IF s = <<>> THEN <<x>>
    ELSE IF SortCmp(Head(s), x) = "Greater" THEN <<x>> \o s
    ELSE <<Head(s)>> \o InsertSorted(Tail(s), x)

\* v.sort_by(..): a stable sort
RECURSIVE SortBy(_)
SortBy(v) ==
    IF v = <<>> THEN <<>>
    ELSE InsertSorted(SortBy(SubSeq(v, 1, Len(v) - 1)), v[Len(v)])

\* ------------------------------------------------------------ construction
\* NClist::new()
New == [intervals |-> <<>>, contained |-> <<Some(<<0, 0>>)>>]

NClistBuilder(ivs, pos) == [intervals |-> ivs, contained_pos |-> pos]

\* variant: an element with an equal end is taken too (n.end() <= e.end())
RECURSIVE RunLen_OrEqual(_, _)
RunLen_OrEqual(it, e) ==
    IF it = <<>> THEN 0
    ELSE IF Head(it).end <= e.end THEN 1 + RunLen_OrEqual(Tail(it), e)
    ELSE 0

\* length of the longest prefix of `it` whose elements n have n.end() < e.end()
RECURSIVE RunLen(_, _)
RunLen(it, e) ==
    IF it = <<>> THEN 0
    ELSE IF Head(it).end < e.end THEN 1 + RunLen(Tail(it), e)
    ELSE 0

\* variant: a plain take_while, which consumes the first element that
\* fails the test
PeekingTakeWhile_Consuming(it, e) ==
    LET k == RunLen(it, e)
    IN [taken |-> SubSeq(it, 1, k), rest |-> SubSeq(it, k + 2, Len(it))]

\* it.peeking_take_while(|n| n.end() < e.end()).collect(): the run taken
\* and what the iterator still holds; the first element that fails the
\* test is peeked at, not consumed
PeekingTakeWhile(it, e) ==
    LET k == RunLen(it, e)
    IN [taken |-> SubSeq(it, 1, k), rest |-> SubSeq(it, k + 1, Len(it))]

\* the while-let loop of build_nclist over the group's elements
RECURSIVE ScanGroup(_, _, _, _)
ScanGroup(it, ivs, cont, subl) ==
    IF it = <<>> THEN [intervals |-> ivs, contained |-> cont, sublists |-> subl]
    ELSE LET e == Head(it)
             interval_pos == Len(ivs)
             c == PeekingTakeWhile(Tail(it), e)
             subl2 == IF c.taken # <<>>
                      THEN Append(subl, NClistBuilder(c.taken, interval_pos + 1))
                      ELSE subl
         IN ScanGroup(c.rest, Append(ivs, e), Append(cont, None), subl2)

\* variant: the link stores the group's start and its length
BuildNclistOp_StoreLength(subl, ivs, cont) ==
    LET sublist == Head(subl)
        sublist_start == Len(ivs)
        r == ScanGroup(sublist.intervals, ivs, cont, Tail(subl))
    IN IF InBounds(r.contained, sublist.contained_pos)
       THEN [err |-> "none",
             intervals |-> r.intervals,
             contained |-> [r.contained EXCEPT ![sublist.contained_pos + 1] =
                                Some(<<sublist_start, Len(r.intervals) - sublist_start>>)],
             sublists |-> r.sublists]
       ELSE [err |-> "index out of bounds", intervals |-> ivs, contained |-> cont,
             sublists |-> subl]

\* the body of build_nclist for a non-empty queue: pops the front group,
\* partitions it into `result` and stores the group's range in its link
BuildNclistOp(subl, ivs, cont) ==
    LET sublist == Head(subl)
        sublist_start == Len(ivs)
        r == ScanGroup(sublist.intervals, ivs, cont, Tail(subl))
    IN IF InBounds(r.contained, sublist.contained_pos)
       THEN [err |-> "none",
             intervals |-> r.intervals,
             contained |-> [r.contained EXCEPT ![sublist.contained_pos + 1] =
                                Some(<<sublist_start, Len(r.intervals)>>)],
             sublists |-> r.sublists]
       ELSE [err |-> "index out of bounds", intervals |-> ivs, contained |-> cont,
             sublists |-> subl]

\* `while !sublists.is_empty() { build_nclist(&mut sublists, &mut list) }`
RECURSIVE BuildLoop(_, _, _)
BuildLoop(subl, ivs, cont) ==
    IF subl = <<>> THEN [err |-> "none", intervals |-> ivs, contained |-> cont]
    ELSE LET r == BuildNclistOp(subl, ivs, cont)
         IN IF r.err # "none"
            THEN [err |-> r.err, intervals |-> ivs, contained |-> cont]
            ELSE BuildLoop(r.sublists, r.intervals, r.contained)

\* NClist::from(v) as a whole: [err, intervals, contained]
FromOp(v) ==
    IF AnyInvalid(v)
    THEN [err |-> "Cannot use intervals with zero or negative width",
          intervals |-> <<>>, contained |-> <<>>]
    ELSE BuildLoop(<<NClistBuilder(SortBy(v), 0)>>, New.intervals, New.contained)

\* NClist::into_vec / Into<Vec<T>>: the intervals Vec of the list
IntoVec == intervals

\* --------------------------------------------------------- binary search
Ok(n) == [ok |-> TRUE, n |-> n]

Err(n) == [ok |-> FALSE, n |-> n]

\* the loop of slice::binary_search_by with the closure |e| e.end().cmp(q)
RECURSIVE BinarySearchLoop(_, _, _, _)
BinarySearchLoop(s, q, base, size) ==
    IF size > 1
    THEN LET half == size \div 2
             mid == base + half
             cmp == Cmp(At(s, mid).end, q)
         IN BinarySearchLoop(s, q, IF cmp = "Greater" THEN base ELSE mid, size - half)
    ELSE base

\* variant: the first of several matches is returned
BinarySearchBy_FirstMatch(s, q) ==
    LET less == Cardinality({i \in 1..Len(s) : s[i].end < q})
    IN IF \E i \in 1..Len(s) : s[i].end = q THEN Ok(less) ELSE Err(less)

\* s.binary_search_by(|e| e.end().cmp(q)), the implementation the crate's
\* test test_binary_search_implementation_details pins
BinarySearchBy(s, q) ==
    IF Len(s) = 0 THEN Err(0)
    ELSE LET base == BinarySearchLoop(s, q, 0, Len(s))
             cmp == Cmp(At(s, base).end, q)
         IN IF cmp = "Equal" THEN Ok(base)
            ELSE Err(base + (IF cmp = "Less" THEN 1 ELSE 0))

\* &v[a..b] panics unless a <= b <= v.len()
CanSlice(v, a, b) == a >= 0 /\ a <= b /\ b <= Len(v)

\* variant: a match is not stepped over (Ok(n) => n)
BinSearchEnd_KeepEqual(start, end, q) ==
    IF ~CanSlice(intervals, start, end)
    THEN [err |-> "slice index out of range", n |-> 0]
    ELSE LET m == BinarySearchBy(Slice(intervals, start, end), q)
         IN [err |-> "none", n |-> m.n]

\* variant: the position in the Vec is returned, not the offset in the slice
BinSearchEnd_Absolute(start, end, q) ==
    IF ~CanSlice(intervals, start, end)
    THEN [err |-> "slice index out of range", n |-> 0]
    ELSE LET m == BinarySearchBy(Slice(intervals, start, end), q)
         IN [err |-> "none", n |-> start + (IF m.ok THEN m.n + 1 ELSE m.n)]

\* NClist::bin_search_end: [err, n]
BinSearchEnd(start, end, q) ==
    IF ~CanSlice(intervals, start, end)
    THEN [err |-> "slice index out of range", n |-> 0]
    ELSE LET m == BinarySearchBy(Slice(intervals, start, end), q)
         IN [err |-> "none", n |-> IF m.ok THEN m.n + 1 ELSE m.n]

\* A SlicedNClist: the sub-slice intervals[ilo..ihi], the sub-slice
\* contained[clo..chi] and the stop coordinate
SlicedNClist(ilo, ihi, clo, chi, stop_at) ==
    [ilo |-> ilo, ihi |-> ihi, clo |-> clo, chi |-> chi, stop_at |-> stop_at]

\* NClist::slice: [err, val]
SliceOp(start, end, q, q_end) ==
    IF ~CanSlice(intervals, start, end)
    THEN [err |-> "slice index out of range", val |-> None]
    ELSE LET m == BinarySearchBy(Slice(intervals, start, end), q)
             start2 == start + (IF m.ok THEN m.n + 1 ELSE m.n)
         IN IF ~CanSlice(intervals, start2, end) \/ ~CanSlice(contained, start2 + 1, end + 1)
            THEN [err |-> "slice index out of range", val |-> None]
            ELSE [err |-> "none",
                  val |-> SlicedNClist(start2, end, start2 + 1, end + 1, q_end)]

\* variant: stops only past stop_at (i.start() > self.stop_at)
SlicedNext_StopPast(s) ==
    IF s.ihi > s.ilo
    THEN IF At(intervals, s.ilo).start > s.stop_at
         THEN [err |-> "none", st |-> s, ret |-> None]
         ELSE IF s.chi > s.clo
              THEN [err |-> "none",
                    st |-> [s EXCEPT !.ilo = s.ilo + 1, !.clo = s.clo + 1],
                    ret |-> Some(<<s.ilo, s.clo>>)]
              ELSE [err |-> "called unwrap on a None value", st |-> s, ret |-> None]
    ELSE [err |-> "none", st |-> s, ret |-> None]

\* SlicedNClist::next: [err, st, ret]; ret is Some((interval position,
\* link position)) or None
SlicedNext(s) ==
    IF s.ihi > s.ilo
    THEN IF At(intervals, s.ilo).start >= s.stop_at
         THEN [err |-> "none", st |-> s, ret |-> None]
         ELSE IF s.chi > s.clo
              THEN [err |-> "none",
                    st |-> [s EXCEPT !.ilo = s.ilo + 1, !.clo = s.clo + 1],
                    ret |-> Some(<<s.ilo, s.clo>>)]
              ELSE [err |-> "called unwrap on a None value", st |-> s, ret |-> None]
    ELSE [err |-> "none", st |-> s, ret |-> None]

\* ---------------------------------------------------------- count_overlaps
\* variant: the element's link is not enqueued
RECURSIVE ForEach_NoPush(_, _, _)
ForEach_NoPush(s, cnt, q) ==
    CHOOSE r \in
        { IF n.err # "none" THEN [err |-> n.err, count |-> cnt, queue |-> q]
          ELSE IF n.ret = None THEN [err |-> "none", count |-> cnt, queue |-> q]
          ELSE ForEach_NoPush(n.st, cnt + 1, q)
          : n \in {SlicedNext(s)} } : TRUE

\* slice(..).for_each(|(_, contained)| { count += 1; push subrange }):
\* [err, count, queue].  n is what the iterator's next() returns, taken once.
RECURSIVE ForEach(_, _, _)
ForEach(s, cnt, q) ==
    CHOOSE r \in
        { IF n.err # "none" THEN [err |-> n.err, count |-> cnt, queue |-> q]
          ELSE IF n.ret = None THEN [err |-> "none", count |-> cnt, queue |-> q]
          ELSE LET c == At(contained, n.ret[2])
               IN ForEach(n.st, cnt + 1, IF c # None THEN Append(q, c) ELSE q)
          : n \in {SlicedNext(s)} } : TRUE

\* the body of count_overlaps' while-let loop for the popped range
\* (start, end): [err, count, queue]
CountSlice(start, end, r, cnt, q) ==
    CHOOSE f \in
        { IF s.err # "none" THEN [err |-> s.err, count |-> cnt, queue |-> q]
          ELSE ForEach(s.val, cnt, q)
          : s \in {SliceOp(start, end, r.start, r.end)} } : TRUE

\* ---------------------------------------------------------------- Overlaps
OverlapsIter(r, pos, end, subl) ==
    [range |-> r, current_pos |-> pos, current_end |-> end, sublists |-> subl]

\* NClist::overlaps(r): [err, st]
OverlapsOp(r) ==
    IF ~InBounds(contained, 0) \/ At(contained, 0) = None
    THEN [err |-> "called unwrap on a None value", st |-> None]
    ELSE LET current_slice == At(contained, 0)
             b == BinSearchEnd(current_slice[1], current_slice[2], r.start)
         IN IF r.end > r.start
            THEN IF b.err # "none" THEN [err |-> b.err, st |-> None]
                 ELSE [err |-> "none",
                       st |-> OverlapsIter(r, b.n, current_slice[2], <<>>)]
            ELSE [err |-> "none",
                  st |-> OverlapsIter(r, current_slice[2], current_slice[2], <<>>)]

\* variant: current_pos is not advanced
OverlapsYield_NoAdvance(st) ==
    LET pos == st.current_pos
    IN IF ~InBounds(contained, pos + 1) \/ ~InBounds(intervals, pos)
       THEN [err |-> "index out of bounds", st |-> st, ret |-> None]
       ELSE LET next_sublist == At(contained, pos + 1)
            IN [err |-> "none",
                st |-> IF next_sublist # None
                       THEN [st EXCEPT !.sublists = Append(st.sublists, next_sublist)]
                       ELSE st,
                ret |-> Some(<<pos>>)]

\* variant: the element's link is enqueued twice
OverlapsYield_PushTwice(st) ==
    LET pos == st.current_pos
        st1 == [st EXCEPT !.current_pos = pos + 1]
    IN IF ~InBounds(contained, pos + 1) \/ ~InBounds(intervals, pos)
       THEN [err |-> "index out of bounds", st |-> st, ret |-> None]
       ELSE LET next_sublist == At(contained, pos + 1)
            IN [err |-> "none",
                st |-> IF next_sublist # None
                       THEN [st1 EXCEPT !.sublists =
                                 Append(Append(st.sublists, next_sublist), next_sublist)]
                       ELSE st1,
                ret |-> Some(<<pos>>)]

\* variant: the element's link is pushed to the front of the queue
OverlapsYield_PushFront(st) ==
    LET pos == st.current_pos
        st1 == [st EXCEPT !.current_pos = pos + 1]
    IN IF ~InBounds(contained, pos + 1) \/ ~InBounds(intervals, pos)
       THEN [err |-> "index out of bounds", st |-> st, ret |-> None]
       ELSE LET next_sublist == At(contained, pos + 1)
            IN [err |-> "none",
                st |-> IF next_sublist # None
                       THEN [st1 EXCEPT !.sublists = <<next_sublist>> \o st.sublists]
                       ELSE st1,
                ret |-> Some(<<pos>>)]

\* the else branch of Overlaps::next: yield the element at current_pos,
\* advance, and enqueue the element's link
OverlapsYield(st) ==
    LET pos == st.current_pos
        st1 == [st EXCEPT !.current_pos = pos + 1]
    IN IF ~InBounds(contained, pos + 1) \/ ~InBounds(intervals, pos)
       THEN [err |-> "index out of bounds", st |-> st, ret |-> None]
       ELSE LET next_sublist == At(contained, pos + 1)
            IN [err |-> "none",
                st |-> IF next_sublist # None
                       THEN [st1 EXCEPT !.sublists = Append(st.sublists, next_sublist)]
                       ELSE st1,
                ret |-> Some(<<pos>>)]

\* variant: a step that finds nothing left moves the cursor one position on
RECURSIVE OverlapsNextOp_StepOnNone(_)
OverlapsNextOp_StepOnNone(st) ==
    LET underflow == st.current_pos > st.current_end
        remaining_zero == st.current_end = st.current_pos
        Exhausted ==
            IF st.sublists # <<>>
            THEN LET new_start == Head(st.sublists)[1]
                     new_end == Head(st.sublists)[2]
                     b == BinSearchEnd(new_start, new_end, st.range.start)
                 IN IF b.err # "none"
                    THEN {[err |-> b.err, st |-> st, ret |-> None]}
                    ELSE UNION { OverlapsNextOp_StepOnNone(popped) : popped \in
                                   {[st EXCEPT !.sublists = Tail(st.sublists),
                                               !.current_pos = new_start + b.n,
                                               !.current_end = new_end]} }
            ELSE {[err |-> "none", st |-> [st EXCEPT !.current_pos = st.current_pos + 1],
                   ret |-> None]}
        Body ==
            IF remaining_zero THEN Exhausted
            ELSE IF ~InBounds(intervals, st.current_pos)
                 THEN {[err |-> "index out of bounds", st |-> st, ret |-> None]}
                 ELSE IF At(intervals, st.current_pos).start >= st.range.end
                      THEN Exhausted
                      ELSE {OverlapsYield(st)}
    IN IF underflow
       THEN {[err |-> "attempt to subtract with overflow", st |-> st, ret |-> None]}
            \cup Body
       ELSE Body

\* Overlaps::next: the set of outcomes [err, st, ret].  The subtraction
\* current_end - current_pos with current_pos > current_end panics in a
\* build with overflow checks and wraps to a non-zero value without them.
RECURSIVE OverlapsNextOp(_)
OverlapsNextOp(st) ==
    LET underflow == st.current_pos > st.current_end
        remaining_zero == st.current_end = st.current_pos
        Exhausted ==
            IF st.sublists # <<>>
            THEN LET new_start == Head(st.sublists)[1]
                     new_end == Head(st.sublists)[2]
                     b == BinSearchEnd(new_start, new_end, st.range.start)
                 IN IF b.err # "none"
                    THEN {[err |-> b.err, st |-> st, ret |-> None]}
                    ELSE UNION { OverlapsNextOp(popped) : popped \in
                                   {[st EXCEPT !.sublists = Tail(st.sublists),
                                               !.current_pos = new_start + b.n,
                                               !.current_end = new_end]} }
            ELSE {[err |-> "none", st |-> st, ret |-> None]}
        Body ==
            IF remaining_zero THEN Exhausted
            ELSE IF ~InBounds(intervals, st.current_pos)
                 THEN {[err |-> "index out of bounds", st |-> st, ret |-> None]}
                 ELSE IF At(intervals, st.current_pos).start >= st.range.end
                      THEN Exhausted
                      ELSE {OverlapsYield(st)}
    IN IF underflow
       THEN {[err |-> "attempt to subtract with overflow", st |-> st, ret |-> None]}
            \cup Body
       ELSE Body

\* --------------------------------------------------------- OrderedOverlaps
OrderedOverlapsIter(r, cur, q) == [range |-> r, current |-> cur, queue |-> q]

\* variant: the width of the query is not tested
OverlapsOrderedOp_NoWidthTest(r) ==
    IF ~InBounds(contained, 0) \/ At(contained, 0) = None
    THEN [err |-> "called unwrap on a None value", st |-> None]
    ELSE LET end == At(contained, 0)[2]
             start == At(contained, 0)[1]
             s == SliceOp(start, end, r.start, r.end)
         IN IF s.err # "none" THEN [err |-> s.err, st |-> None]
            ELSE [err |-> "none", st |-> OrderedOverlapsIter(r, s.val, <<>>)]

\* NClist::overlaps_ordered(r): [err, st]
OverlapsOrderedOp(r) ==
    IF ~InBounds(contained, 0) \/ At(contained, 0) = None
    THEN [err |-> "called unwrap on a None value", st |-> None]
    ELSE LET end == At(contained, 0)[2]
             start == IF r.end <= r.start THEN end ELSE At(contained, 0)[1]
             s == SliceOp(start, end, r.start, r.end)
         IN IF s.err # "none" THEN [err |-> s.err, st |-> None]
            ELSE [err |-> "none", st |-> OrderedOverlapsIter(r, s.val, <<>>)]

\* variant: the sub-list's cursor is pushed and the current one kept (no swap)
OrderedYield_NoSwap(st, n) ==
    LET c == At(contained, n.ret[2])
    IN IF c # None
       THEN LET ns == SliceOp(c[1], c[2], st.range.start, st.range.end)
            IN IF ns.err # "none" THEN [err |-> ns.err, st |-> st, ret |-> None]
               ELSE [err |-> "none",
                     st |-> [st EXCEPT !.current = n.st,
                                       !.queue = Append(st.queue, ns.val)],
                     ret |-> Some(<<n.ret[1]>>)]
       ELSE [err |-> "none", st |-> [st EXCEPT !.current = n.st],
             ret |-> Some(<<n.ret[1]>>)]

\* the Some branch of OrderedOverlaps::next, n being what current.next()
\* returned: descend into the element's sub-list, if it has one, and push
\* the displaced cursor
OrderedYield(st, n) ==
    LET c == At(contained, n.ret[2])
    IN IF c # None
       THEN LET ns == SliceOp(c[1], c[2], st.range.start, st.range.end)
            IN IF ns.err # "none" THEN [err |-> ns.err, st |-> st, ret |-> None]
               ELSE [err |-> "none",
                     st |-> [st EXCEPT !.current = ns.val,
                                       !.queue = Append(st.queue, n.st)],
                     ret |-> Some(<<n.ret[1]>>)]
       ELSE [err |-> "none", st |-> [st EXCEPT !.current = n.st],
             ret |-> Some(<<n.ret[1]>>)]

\* OrderedOverlaps::next: [err, st, ret]
RECURSIVE OrderedOverlapsNextOp(_)
OrderedOverlapsNextOp(st) ==
    LET n == SlicedNext(st.current)
    IN IF n.err # "none" THEN [err |-> n.err, st |-> st, ret |-> None]
       ELSE IF n.ret # None
       THEN OrderedYield(st, n)
       ELSE IF st.queue # <<>>
       THEN CHOOSE o \in { OrderedOverlapsNextOp(popped) : popped \in
                             {[st EXCEPT !.current = st.queue[Len(st.queue)],
                                         !.queue = SubSeq(st.queue, 1, Len(st.queue) - 1)]} }
                 : TRUE
       ELSE [err |-> "none", st |-> st, ret |-> None]

\* ----------------------------------------------------------------- actions
NoPanic == [op |-> "none", msg |-> "none"]

\* a panic!, failed unwrap or failed bounds check inside operation op
Panic(op, msg) == pc' = "panicked" /\ panic' = [op |-> op, msg |-> msg]

\* nothing has run yet: the caller holds the Vec and no list
BeforeFrom ==
    /\ pc = "start"
    /\ panic = NoPanic
    /\ intervals = <<>>
    /\ contained = <<>>
    /\ sublists = <<>>
    /\ range = [start |-> 0, end |-> 0]
    /\ count = 0
    /\ queue = <<>>
    /\ ov = OverlapsIter([start |-> 0, end |-> 0], 0, 0, <<>>)
    /\ ov_out = <<>>
    /\ oo = OrderedOverlapsIter([start |-> 0, end |-> 0], SlicedNClist(0, 0, 0, 0, 0), <<>>)
    /\ oo_out = <<>>
    /\ its = <<>>

InitFor(maxlen, coords) == IsInput(input, maxlen, coords) /\ BeforeFrom

Init == InitFor(MaxLen, Coords)

\* NClist::from(v) up to the first test of the while loop
From ==
    /\ pc = "start"
    /\ IF AnyInvalid(input)
       THEN /\ Panic("from", "Cannot use intervals with zero or negative width")
            /\ UNCHANGED <<intervals, contained, sublists>>
       ELSE /\ pc' = "building"
            /\ intervals' = New.intervals
            /\ contained' = New.contained
            /\ sublists' = <<NClistBuilder(SortBy(input), 0)>>
            /\ UNCHANGED panic
    /\ UNCHANGED <<input, range, count, queue, ov, ov_out, oo, oo_out, its>>

\* one iteration of `while !sublists.is_empty() { build_nclist(..) }`; the
\* loop ends, and from returns the list, when the queue is empty.  The
\* result is capped at one element more than the input holds.
BuildNclist ==
    /\ pc = "building"
    /\ sublists # <<>>
    /\ Len(intervals) <= Len(input)
    /\ \E r \in {BuildNclistOp(sublists, intervals, contained)} :
          IF r.err = "none"
          THEN /\ intervals' = r.intervals
               /\ contained' = r.contained
               /\ sublists' = r.sublists
               /\ pc' = IF r.sublists = <<>> THEN "built" ELSE "building"
               /\ UNCHANGED panic
          ELSE /\ Panic("from", r.err)
               /\ UNCHANGED <<intervals, contained, sublists>>
    /\ UNCHANGED <<input, range, count, queue, ov, ov_out, oo, oo_out, its>>

\* nc.count_overlaps(&r) up to the first test of the while-let loop
CountOverlapsOf(r) ==
    /\ pc = "built"
    /\ range' = r
    /\ IF r.end <= r.start
       THEN /\ pc' = "counted"
            /\ UNCHANGED <<queue, panic>>
       ELSE IF ~InBounds(contained, 0) \/ At(contained, 0) = None
            THEN /\ Panic("count_overlaps", "called unwrap on a None value")
                 /\ UNCHANGED queue
            ELSE /\ queue' = <<At(contained, 0)>>
                 /\ pc' = "counting"
                 /\ UNCHANGED panic
    /\ count' = 0
    /\ UNCHANGED <<input, intervals, contained, sublists, ov, ov_out, oo, oo_out, its>>

\* the caller's query is any Range over the coordinates
CountOverlaps == \E r \in Ranges : CountOverlapsOf(r)

\* one iteration of `while let Some((start, end)) = queue.pop_front()`; the
\* loop ends, and count is returned, when the queue is empty.  The count is
\* capped at one more than the list holds.
CountOverlapsLoop ==
    /\ pc = "counting"
    /\ queue # <<>>
    /\ count <= Len(intervals)
    /\ \E f \in {CountSlice(Head(queue)[1], Head(queue)[2], range, count, Tail(queue))} :
          IF f.err # "none"
          THEN Panic("count_overlaps", f.err) /\ UNCHANGED <<count, queue>>
          ELSE /\ count' = f.count
               /\ queue' = f.queue
               /\ pc' = IF f.queue = <<>> THEN "counted" ELSE "counting"
               /\ UNCHANGED panic
    /\ UNCHANGED <<input, intervals, contained, sublists, range, ov, ov_out, oo, oo_out, its>>

\* let mut q = nc.overlaps(&r)
Overlaps ==
    /\ pc = "counted"
    /\ \E o \in {OverlapsOp(range)} :
          IF o.err # "none"
          THEN Panic("overlaps", o.err) /\ UNCHANGED ov
          ELSE ov' = o.st /\ pc' = "overlaps" /\ UNCHANGED panic
    /\ UNCHANGED <<input, intervals, contained, sublists, range, count, queue,
                   ov_out, oo, oo_out, its>>

\* q.next() on the Overlaps iterator; the yields are capped at one more
\* than the list holds
OverlapsNext ==
    /\ pc = "overlaps"
    /\ Len(ov_out) <= Len(intervals)
    /\ \E o \in OverlapsNextOp(ov) :
        IF o.err # "none"
        THEN Panic("Overlaps::next", o.err) /\ UNCHANGED <<ov, ov_out>>
        ELSE /\ ov' = o.st
             /\ ov_out' = ov_out \o o.ret
             /\ pc' = IF o.ret = None THEN "overlaps_end" ELSE "overlaps"
             /\ UNCHANGED panic
    /\ UNCHANGED <<input, intervals, contained, sublists, range, count, queue,
                   oo, oo_out, its>>

\* let mut q = nc.overlaps_ordered(&r)
OverlapsOrdered ==
    /\ pc = "overlaps_end"
    /\ \E o \in {OverlapsOrderedOp(range)} :
          IF o.err # "none"
          THEN Panic("overlaps_ordered", o.err) /\ UNCHANGED oo
          ELSE oo' = o.st /\ pc' = "ordered" /\ UNCHANGED panic
    /\ UNCHANGED <<input, intervals, contained, sublists, range, count, queue,
                   ov, ov_out, oo_out, its>>

\* q.next() on the OrderedOverlaps iterator; the yields are capped at one
\* more than the list holds
OrderedOverlapsNext ==
    /\ pc = "ordered"
    /\ Len(oo_out) <= Len(intervals)
    /\ \E o \in {OrderedOverlapsNextOp(oo)} :
          IF o.err # "none"
          THEN Panic("OrderedOverlaps::next", o.err) /\ UNCHANGED <<oo, oo_out>>
          ELSE /\ oo' = o.st
               /\ oo_out' = oo_out \o o.ret
               /\ pc' = IF o.ret = None THEN "ordered_end" ELSE "ordered"
               /\ UNCHANGED panic
    /\ UNCHANGED <<input, intervals, contained, sublists, range, count, queue,
                   ov, ov_out, its>>

Next ==
    \/ From
    \/ BuildNclist
    \/ CountOverlaps
    \/ CountOverlapsLoop
    \/ Overlaps
    \/ OverlapsNext
    \/ OverlapsOrdered
    \/ OrderedOverlapsNext

\* One caller: build the list, then count, iterate and iterate in order
\* with one query
Spec == Init /\ [][Next]_vars

FairInit == InitFor(SmallMaxLen, SmallCoords)

\* The same caller on the smaller inputs, and it keeps running: a loop that
\* can take a step takes it
FairSpec == FairInit /\ [][Next]_vars /\ WF_vars(Next)

\* ------------------------------------------- an iterator used past its end
\* q.next() on the Overlaps iterator after it has returned None
OverlapsNextAgain ==
    /\ pc \in {"overlaps_end", "overlaps_again"}
    /\ Len(ov_out) <= Len(intervals)
    /\ \E o \in OverlapsNextOp(ov) :
        IF o.err # "none"
        THEN Panic("Overlaps::next", o.err) /\ UNCHANGED <<ov, ov_out>>
        ELSE /\ ov' = o.st
             /\ ov_out' = ov_out \o o.ret
             /\ pc' = "overlaps_again"
             /\ UNCHANGED panic
    /\ UNCHANGED <<input, intervals, contained, sublists, range, count, queue,
                   oo, oo_out, its>>

\* q.next() on the OrderedOverlaps iterator after it has returned None
OrderedOverlapsNextAgain ==
    /\ pc \in {"ordered_end", "ordered_again"}
    /\ Len(oo_out) <= Len(intervals)
    /\ \E o \in {OrderedOverlapsNextOp(oo)} :
          IF o.err # "none"
          THEN Panic("OrderedOverlaps::next", o.err) /\ UNCHANGED <<oo, oo_out>>
          ELSE /\ oo' = o.st
               /\ oo_out' = oo_out \o o.ret
               /\ pc' = "ordered_again"
               /\ UNCHANGED panic
    /\ UNCHANGED <<input, intervals, contained, sublists, range, count, queue,
                   ov, ov_out, its>>

AgainNext ==
    \/ From
    \/ BuildNclist
    \/ CountOverlaps
    \/ CountOverlapsLoop
    \/ Overlaps
    \/ OverlapsNext
    \/ OverlapsNextAgain
    \/ OverlapsOrdered
    \/ OrderedOverlapsNext
    \/ OrderedOverlapsNextAgain

\* The one caller on the smaller inputs, who may go on calling next() on an
\* iterator that has returned None
SpecAgain == FairInit /\ [][AgainNext]_vars

\* --------------------------------------------- lists with several sub-lists
\* the caller's Vec holds up to WideMaxLen elements of positive width, given
\* in the order sort_by leaves them in
WideInit ==
    /\ \E n \in 0..WideMaxLen :
          \E b \in [1..n -> {c \in Coords \X Coords : c[2] > c[1]}] :
             /\ SortBy(VecOf(b)) = VecOf(b)
             /\ input = VecOf(b)
    /\ BeforeFrom

\* The one caller with a longer Vec, so that an iterator holds several
\* pending sub-lists at once
SpecWide == WideInit /\ [][Next]_vars

\* ------------------------------------------- the test duplicate_intervals
\* the Vec the test builds its list from
DuplicateIntervals ==
    VecOf(<< <<10, 15>>, <<11, 13>>, <<10, 20>>, <<1, 8>>, <<11, 13>>, <<16, 18>> >>)

\* the Ranges the test queries the list with
DuplicateQueries ==
    { [start |-> 5, end |-> 20], [start |-> 11, end |-> 13], [start |-> 11, end |-> 17],
      [start |-> 20, end |-> 100], [start |-> 8, end |-> 10], [start |-> 8, end |-> 9] }

DuplicateInit == (input = DuplicateIntervals /\ BeforeFrom) \/ Init

\* the test's list is queried with one of the test's Ranges
CountOverlapsDuplicate ==
    /\ input = DuplicateIntervals
    /\ \E r \in DuplicateQueries : CountOverlapsOf(r)

DuplicateNext ==
    \/ From
    \/ BuildNclist
    \/ CountOverlaps
    \/ CountOverlapsDuplicate
    \/ CountOverlapsLoop
    \/ Overlaps
    \/ OverlapsNext
    \/ OverlapsOrdered
    \/ OrderedOverlapsNext

\* The one caller, whose Vec may also be the one of the test
\* duplicate_intervals, queried with the test's Ranges
SpecDuplicates == DuplicateInit /\ [][DuplicateNext]_vars

\* ------------------------------------------- several iterators on one list
\* the queries of the two callers: the non-empty ranges
ConcRanges == {r \in [start : SmallCoords, end : SmallCoords] : r.end > r.start}

\* the two callers that hold an iterator on the shared list
Iters == {"a", "b"}

NoIter == [kind |-> "none", range |-> [start |-> 0, end |-> 0], st |-> <<>>,
           out |-> <<>>, done |-> FALSE]

\* nc.overlaps(&r) or nc.overlaps_ordered(&r): [err, st]
IterOp(kind, r) == IF kind = "overlaps" THEN OverlapsOp(r) ELSE OverlapsOrderedOp(r)

\* q.next() on an iterator of either kind: [err, st, ret]
IterNextOp(kind, st) ==
    IF kind = "overlaps" THEN CHOOSE o \in OverlapsNextOp(st) : TRUE
    ELSE OrderedOverlapsNextOp(st)

ConcInit ==
    /\ IsInput(input, SmallMaxLen, SmallCoords)
    /\ ~AnyInvalid(input)
    /\ pc = "conc"
    /\ panic = NoPanic
    /\ intervals = FromOp(input).intervals
    /\ contained = FromOp(input).contained
    /\ sublists = <<>>
    /\ range = [start |-> 0, end |-> 0]
    /\ count = 0
    /\ queue = <<>>
    /\ ov = OverlapsIter([start |-> 0, end |-> 0], 0, 0, <<>>)
    /\ ov_out = <<>>
    /\ oo = OrderedOverlapsIter([start |-> 0, end |-> 0], SlicedNClist(0, 0, 0, 0, 0), <<>>)
    /\ oo_out = <<>>
    /\ its = [i \in Iters |-> NoIter]

\* caller i creates an iterator of the given kind for query r
ConcCreate(i, kind) ==
    /\ pc = "conc"
    /\ its[i].kind = "none"
    /\ \E r \in ConcRanges :
        \E o \in {IterOp(kind, r)} :
           IF o.err # "none"
           THEN Panic(kind, o.err) /\ UNCHANGED its
           ELSE /\ its' = [its EXCEPT ![i] = [kind |-> kind, range |-> r, st |-> o.st,
                                              out |-> <<>>, done |-> FALSE]]
                /\ UNCHANGED <<pc, panic>>
    /\ UNCHANGED <<input, intervals, contained, sublists, range, count, queue,
                   ov, ov_out, oo, oo_out>>

ConcOverlaps(i) == ConcCreate(i, "overlaps")

ConcOverlapsOrdered(i) == ConcCreate(i, "ordered")

\* variant: the cursor is kept in the list, so the iterators of one kind
\* share it
ConcNext_SharedCursor(i) ==
    /\ pc = "conc"
    /\ its[i].kind # "none"
    /\ ~its[i].done
    /\ Len(its[i].out) <= Len(intervals)
    /\ \E o \in {IterNextOp(its[i].kind, its[i].st)} :
          IF o.err # "none"
          THEN Panic("next", o.err) /\ UNCHANGED its
          ELSE /\ its' = [j \in Iters |->
                            IF j = i
                            THEN [its[i] EXCEPT !.st = o.st, !.out = its[i].out \o o.ret,
                                                !.done = (o.ret = None)]
                            ELSE IF its[j].kind = its[i].kind /\ ~its[j].done
                                 THEN [its[j] EXCEPT !.st = o.st]
                                 ELSE its[j]]
               /\ UNCHANGED <<pc, panic>>
    /\ UNCHANGED <<input, intervals, contained, sublists, range, count, queue,
                   ov, ov_out, oo, oo_out>>

\* caller i advances its iterator, until it has seen the end of the sequence
ConcNext(i) ==
    /\ pc = "conc"
    /\ its[i].kind # "none"
    /\ ~its[i].done
    /\ Len(its[i].out) <= Len(intervals)
    /\ \E o \in {IterNextOp(its[i].kind, its[i].st)} :
          IF o.err # "none"
          THEN Panic("next", o.err) /\ UNCHANGED its
          ELSE /\ its' = [its EXCEPT ![i] =
                              [its[i] EXCEPT !.st = o.st, !.out = its[i].out \o o.ret,
                                             !.done = (o.ret = None)]]
               /\ UNCHANGED <<pc, panic>>
    /\ UNCHANGED <<input, intervals, contained, sublists, range, count, queue,
                   ov, ov_out, oo, oo_out>>

ConcNextStep ==
    \/ \E i \in Iters : ConcOverlaps(i)
    \/ \E i \in Iters : ConcOverlapsOrdered(i)
    \/ \E i \in Iters : ConcNext(i)

\* Two callers create and advance iterators on one built list, in any order
SpecConc == ConcInit /\ [][ConcNextStep]_vars

\* ------------------------------------------------------------- properties
\* two intervals overlap: a.start < b.end && b.start < a.end
OverlapsRange(e, r) == e.start < r.end /\ r.start < e.end

\* the stored positions whose element overlaps r
OverlapPositions(r) == {p \in 0..(Len(intervals) - 1) : OverlapsRange(At(intervals, p), r)}

Elems(s) == {s[i] : i \in 1..Len(s)}

NoDuplicates(s) == \A i, j \in 1..Len(s) : i # j => s[i] # s[j]

CountIn(s, x) == Cardinality({i \in 1..Len(s) : s[i] = x})

SameMultiset(a, b) ==
    /\ Len(a) = Len(b)
    /\ \A x \in Elems(a) \cup Elems(b) : CountIn(a, x) = CountIn(b, x)

IsPrefix(a, b) == Len(a) <= Len(b) /\ SubSeq(b, 1, Len(a)) = a

\* the links of the elements (link 0, the root, left out) that are present
NestedLinks == {i \in 2..Len(contained) : contained[i] # None}

Inverted(r) == r.end <= r.start

\* some element of the collection has end <= start
HasBadElement(v) == \E i \in 1..Len(v) : ~(v[i].end > v[i].start)

\* count_overlaps has returned
CountReturned == pc \in {"counted", "overlaps", "overlaps_end", "ordered", "ordered_end"}

\* the Overlaps iterator exists
OverlapsCreated == pc \in {"overlaps", "overlaps_end", "ordered", "ordered_end"}

\* C1: for a list built from a valid Vec and a query r with r.end > r.start,
\* count_overlaps(r) is the number of elements given to the constructor,
\* counted with multiplicity, that overlap r.
C1_CountIsNumberOfOverlaps ==
    (CountReturned /\ range.end > range.start) =>
        count = Cardinality({i \in 1..Len(input) : OverlapsRange(input[i], range)})

\* count_overlaps has returned 2 for a list of 3 elements, one of them nested
C1_Witness ==
    /\ pc = "counted"
    /\ range.end > range.start
    /\ Len(input) = 3
    /\ count = 2
    /\ NestedLinks # {}

\* C2: for a query r with r.end > r.start, overlaps(r) yields only positions
\* whose element overlaps r, yields no position twice, and has yielded every
\* such position when it returns None.
C2_OverlapsYieldsExactlyTheOverlaps ==
    (OverlapsCreated /\ range.end > range.start) =>
        /\ NoDuplicates(ov_out)
        /\ Elems(ov_out) \subseteq OverlapPositions(range)
        /\ pc # "overlaps" => Elems(ov_out) = OverlapPositions(range)

\* overlaps(r) is exhausted after 2 yields, one of them from a nested slice,
\* on a list of 3 elements
C2_Witness ==
    /\ pc = "overlaps_end"
    /\ range.end > range.start
    /\ Len(intervals) = 3
    /\ Len(ov_out) = 2
    /\ \E i \in NestedLinks : ov_out[2] >= contained[i][1] /\ ov_out[2] < contained[i][2]

\* C3: for any query r, inverted and empty ones included, count_overlaps(r),
\* the number of elements overlaps(r) yields and the number of elements
\* overlaps_ordered(r) yields are equal.
C3_ThreeCountsAgree ==
    pc = "ordered_end" => (count = Len(ov_out) /\ Len(ov_out) = Len(oo_out))

\* the three operations have found all 3 elements of a list nested two deep
C3_Witness ==
    /\ pc = "ordered_end"
    /\ count = 3
    /\ Cardinality(NestedLinks) = 2

\* C4: the elements overlaps_ordered(r) yields are in non-decreasing order of
\* start coordinate.
C4_OrderedByStart ==
    \A i \in 1..(Len(oo_out) - 1) :
        At(intervals, oo_out[i]).start <= At(intervals, oo_out[i + 1]).start

\* overlaps_ordered(r) has yielded a nested element before a later element of
\* the outer slice, with different starts
C4_Witness ==
    /\ pc = "ordered_end"
    /\ \E i \in 1..(Len(oo_out) - 1) :
        /\ oo_out[i] > oo_out[i + 1]
        /\ At(intervals, oo_out[i]).start < At(intervals, oo_out[i + 1]).start

\* C5: for a query r with r.end <= r.start, count_overlaps(r) returns 0, and
\* the first next() of overlaps(r) and of overlaps_ordered(r) returns None
\* with nothing yielded.
C5_InvertedQueryStep ==
    /\ (pc = "built" /\ pc' # "built" /\ Inverted(range')) => (pc' = "counted" /\ count' = 0)
    /\ (pc = "overlaps" /\ Inverted(range)) => (pc' = "overlaps_end" /\ ov_out' = <<>>)
    /\ (pc = "ordered" /\ Inverted(range)) => (pc' = "ordered_end" /\ oo_out' = <<>>)

C5_InvertedQueryIsEmpty == [][C5_InvertedQueryStep]_vars

\* the three operations have answered an inverted query on a list of 3
\* elements that all contain the query's coordinates
C5_Witness ==
    /\ pc = "ordered_end"
    /\ range.end < range.start
    /\ Len(intervals) = 3
    /\ \A p \in 1..3 : intervals[p].start <= range.end /\ intervals[p].end > range.start
    /\ count = 0 /\ ov_out = <<>> /\ oo_out = <<>>

\* C6: from a Vec with an element whose end <= start, construction fails
\* with the zero-or-negative-width panic, wherever the element is and
\* whatever the others are, and no list, full or partial, is produced.
C6_InvalidIntervalFails ==
    (HasBadElement(input) /\ pc # "start") =>
        /\ pc = "panicked"
        /\ panic = [op |-> "from", msg |-> "Cannot use intervals with zero or negative width"]
        /\ intervals = <<>> /\ contained = <<>> /\ sublists = <<>>

\* construction has failed on a Vec whose only bad element is the last of 3,
\* a zero-width one
C6_Witness ==
    /\ pc = "panicked"
    /\ Len(input) = 3
    /\ input[3].end = input[3].start
    /\ input[1].end > input[1].start
    /\ input[2].end > input[2].start

\* C7: from a valid Vec of N elements construction succeeds, and into_vec of
\* the list returns N elements that form the same multiset as the input.
C7_IntoVecIsInputMultiset ==
    ~HasBadElement(input) =>
        /\ panic.op # "from"
        /\ pc \notin {"start", "building"} => SameMultiset(IntoVec, input)

\* a list is built from 3 elements, two of them with the same bounds, one
\* nested, and stores them in another order than the input
C7_Witness ==
    /\ pc = "built"
    /\ Len(input) = 3
    /\ \E i, j \in 1..3 : i # j /\ input[i].start = input[j].start /\ input[i].end = input[j].end
    /\ NestedLinks # {}
    /\ intervals # input

\* C8: no step of count_overlaps, overlaps or overlaps_ordered panics: no
\* read outside the Vecs, no unwrap of an absent root link, no
\* current_end - current_pos with current_pos > current_end.
C8_QueriesNeverPanic == panic.op \in {"none", "from"}

\* the three operations have run to their end over a list nested two deep
\* and each has visited all 3 elements
C8_Witness ==
    /\ pc = "ordered_end"
    /\ Cardinality(NestedLinks) = 2
    /\ Len(ov_out) = 3
    /\ Len(oo_out) = 3

\* the caller has finished: from panicked, or the last iterator returned None
Finished == pc \in {"ordered_end", "panicked"}

\* C9: every operation terminates: the construction loop empties its group
\* queue, count_overlaps empties its slice queue, and overlaps(r) and
\* overlaps_ordered(r) return None after at most N yields.
C9_AllTerminate ==
    /\ [](CountReturned => (sublists = <<>> /\ queue = <<>>))
    /\ [](Len(ov_out) <= Len(intervals) /\ Len(oo_out) <= Len(intervals))
    /\ <>Finished

\* both iterators have ended after exactly N = 2 yields on a nested list
C9_Witness ==
    /\ pc = "ordered_end"
    /\ Len(intervals) = 2
    /\ NestedLinks # {}
    /\ Len(ov_out) = 2
    /\ Len(oo_out) = 2

\* what an iterator yields when it is advanced alone to its end
RECURSIVE RunAlone(_, _, _, _)
RunAlone(kind, st, out, fuel) ==
    IF fuel = 0 THEN out
    ELSE LET o == IterNextOp(kind, st)
         IN IF o.err # "none" \/ o.ret = None THEN out
            ELSE RunAlone(kind, o.st, out \o o.ret, fuel - 1)

AloneOutput(kind, r) == RunAlone(kind, IterOp(kind, r).st, <<>>, Len(intervals) + 1)

ListBuilt == pc \notin {"start", "building"} /\ panic.op # "from"

\* the links that are present, link 0 included, as indices of `contained`
PresentLinks == {i \in 1..Len(contained) : contained[i] # None}

\* the number of elements of intervals[a..b] whose end is <= q
EndsUpTo(a, b, q) == Cardinality({p \in a..(b - 1) : At(intervals, p).end <= q})

\* the coordinates searched for: those of the queries and of the elements
SearchCoords ==
    Coords \cup UNION {{intervals[p].start, intervals[p].end} : p \in 1..Len(intervals)}

\* C11: for every slice [start, end) that a link of the list NClist::from
\* has returned addresses and every coordinate q, bin_search_end returns,
\* and slice advances its start by, the number of elements of the slice
\* whose end is <= q: the offset just after the last of them, also when
\* several ends equal q.
C11_SearchReturnsUpperBound ==
    pc = "built" =>
        \A i \in PresentLinks : \A q \in SearchCoords :
            LET a == contained[i][1]
                b == contained[i][2]
            IN /\ BinSearchEnd(a, b, q) = [err |-> "none", n |-> EndsUpTo(a, b, q)]
               /\ SliceOp(a, b, q, q).err = "none"
               /\ SliceOp(a, b, q, q).val.ilo = a + EndsUpTo(a, b, q)

\* a list is built whose top-level slice of 3 holds two elements with the
\* same end and then one with a greater end: the search for that end
\* returns 2
C11_Witness ==
    /\ pc = "built"
    /\ Len(intervals) = 3
    /\ contained[1] = <<0, 3>>
    /\ intervals[1].end = intervals[2].end
    /\ intervals[3].end > intervals[2].end
    /\ BinSearchEnd(0, 3, intervals[1].end).n = 2

\* C12: in a built list, in every slice that a present link addresses, link 0
\* included, the starts are in non-decreasing order of position and so are
\* the ends: no element has a start or an end smaller than that of an
\* earlier element of the same slice.
C12_SlicesSortedByStartAndEnd ==
    ListBuilt =>
        \A i \in PresentLinks :
            \A p1, p2 \in contained[i][1]..(contained[i][2] - 1) :
                p1 < p2 => /\ At(intervals, p1).start <= At(intervals, p2).start
                           /\ At(intervals, p1).end <= At(intervals, p2).end

\* a list of 3 elements is built whose nested slice holds two elements with
\* increasing starts and increasing ends
C12_Witness ==
    /\ pc = "built"
    /\ Len(intervals) = 3
    /\ contained[2] = <<1, 3>>
    /\ intervals[2].start < intervals[3].start
    /\ intervals[2].end < intervals[3].end

\* the OrderedOverlaps iterator exists
OrderedCreated == pc \in {"ordered", "ordered_end"}

\* x comes before y in the order of a stable sort of the input by ascending
\* start, ties by descending end: remaining ties are in input order
SortsBefore(x, y) ==
    \/ x.start < y.start
    \/ x.start = y.start /\ x.end > y.end
    \/ x.start = y.start /\ x.end = y.end /\ x.id < y.id

\* the positions in the slice nested in the element at position o
NestedIn(o) ==
    IF At(contained, o + 1) = None THEN {}
    ELSE At(contained, o + 1)[1]..(At(contained, o + 1)[2] - 1)

\* the positions nested in the element at position o at any depth
RECURSIVE NestedBelow(_, _)
NestedBelow(o, depth) ==
    IF depth = 0 THEN {}
    ELSE NestedIn(o) \cup UNION {NestedBelow(p, depth - 1) : p \in NestedIn(o)}

\* the positions a query finds: an empty or inverted Range overlaps nothing
Overlapping(r) == IF Inverted(r) THEN {} ELSE OverlapPositions(r)

\* the k-th element overlaps_ordered has yielded
OrderedYielded(k) == At(intervals, oo_out[k])

\* C13: overlaps_ordered(r) yields the elements that overlap r in the order
\* of the construction's stable sort (ascending start, ties by descending
\* end, remaining ties in input order), nothing skipped and nothing else: an
\* owner is yielded before every element nested inside it.  The list of
\* [10,15) [11,13) [10,20) [1,8) [11,13) [16,18) queried with [11,17) yields
\* [10,20) [10,15) [11,13) [11,13) [16,18).
C13_OrderedIsSortOrder ==
    OrderedCreated =>
        /\ Elems(oo_out) \subseteq Overlapping(range)
        /\ \A k \in 1..(Len(oo_out) - 1) : SortsBefore(OrderedYielded(k), OrderedYielded(k + 1))
        /\ \A p \in Overlapping(range) :
              (\/ pc = "ordered_end"
               \/ \E k \in 1..Len(oo_out) : SortsBefore(At(intervals, p), OrderedYielded(k)))
                  => p \in Elems(oo_out)
        /\ \A k1, k2 \in 1..Len(oo_out) :
              oo_out[k2] \in NestedBelow(oo_out[k1], Len(intervals)) => k1 < k2
        /\ (pc = "ordered_end" /\ input = DuplicateIntervals
                /\ range = [start |-> 11, end |-> 17])
              => [k \in 1..Len(oo_out) |-> <<OrderedYielded(k).start, OrderedYielded(k).end>>]
                     = << <<10, 20>>, <<10, 15>>, <<11, 13>>, <<11, 13>>, <<16, 18>> >>

\* the list of the test duplicate_intervals, queried with [11,17), has
\* yielded its 5 overlapping elements, the two [11,13) in their input order
C13_Witness ==
    /\ pc = "ordered_end"
    /\ input = DuplicateIntervals
    /\ range = [start |-> 11, end |-> 17]
    /\ Len(oo_out) = 5
    /\ OrderedYielded(3).id = 1
    /\ OrderedYielded(4).id = 4

\* the link, as an index of `contained`, whose slice holds position p
SliceOfPos(p) ==
    CHOOSE i \in PresentLinks : p >= contained[i][1] /\ p < contained[i][2]

\* the links of the elements overlaps(r) has yielded, in the order of the yields
RECURSIVE LinksOfYielded(_)
LinksOfYielded(out) ==
    IF out = <<>> THEN <<>>
    ELSE LET c == At(contained, out[Len(out)] + 1)
             before == LinksOfYielded(SubSeq(out, 1, Len(out) - 1))
         IN IF c = None THEN before ELSE Append(before, c)

IsSuffix(a, b) == Len(a) <= Len(b) /\ SubSeq(b, Len(b) - Len(a) + 1, Len(b)) = a

\* C14: overlaps(r) completes a slice before it visits the sub-slices of its
\* elements: every element yielded from an owner's own slice is yielded
\* before any element of the owner's sub-slice; and the sub-slices are
\* visited in the order their owners were yielded, the pending queue being
\* the not yet visited links of the yielded owners in that order.
C14_OverlapsBreadthFirst ==
    OverlapsCreated =>
        /\ \A ko, kx, ky \in 1..Len(ov_out) :
              (/\ ov_out[kx] \in NestedIn(ov_out[ko])
               /\ SliceOfPos(ov_out[ky]) = SliceOfPos(ov_out[ko])) => ky < kx
        /\ \A k1, k2, kx, ky \in 1..Len(ov_out) :
              (/\ k1 < k2
               /\ ov_out[kx] \in NestedIn(ov_out[k1])
               /\ ov_out[ky] \in NestedIn(ov_out[k2])) => kx < ky
        /\ IsSuffix(ov.sublists, LinksOfYielded(ov_out))

\* overlaps(r) has yielded the two owners of the top-level slice and then the
\* element nested in the first and the element nested in the second
C14_Witness ==
    /\ pc = "overlaps_end"
    /\ Len(intervals) = 4
    /\ contained = << <<0, 2>>, <<2, 3>>, <<3, 4>>, None, None >>
    /\ ov_out = <<0, 1, 2, 3>>

\* link i is present in cont, or a group waiting in subl is tagged with i
PresentOrPending(i, cont, subl) ==
    \/ At(cont, i) # None
    \/ \E j \in 1..Len(subl) : subl[j].contained_pos = i

\* the element x of group g is immediately followed in g by an element with
\* a strictly smaller end
FollowedBySmallerEnd(g, x) ==
    \E k \in 1..(Len(g) - 1) : g[k].id = x.id /\ g[k + 1].end < x.end

\* in a built list every element of the range of a present link i >= 1 is
\* nested in element i - 1
C15_LinkedAreNested ==
    ListBuilt =>
        \A i \in 1..Len(intervals) :
            At(contained, i) # None =>
                \A p \in At(contained, i)[1]..(At(contained, i)[2] - 1) :
                    /\ At(intervals, p).start >= At(intervals, i - 1).start
                    /\ At(intervals, p).end < At(intervals, i - 1).end

\* a step of the construction or of a query: an element that build_nclist
\* stores gets a sub-list exactly when the next element of its group has a
\* strictly smaller end, and an element stored earlier keeps or loses none
C15_LinkStep ==
    pc' # "panicked" =>
        /\ \A i \in 1..Len(intervals) :
              PresentOrPending(i, contained', sublists') = PresentOrPending(i, contained, sublists)
        /\ \A i \in (Len(intervals) + 1)..Len(intervals') :
              PresentOrPending(i, contained', sublists')
                  = FollowedBySmallerEnd(Head(sublists).intervals, At(intervals', i - 1))

\* C15: in a built list, for every i in 1..N whose link is present, every
\* element in the link's range has a start >= that of element i - 1 and an
\* end strictly smaller than that of element i - 1; and link i is present
\* exactly when element i - 1 was immediately followed, in its group, by an
\* element with a strictly smaller end.
C15_LinksAreTheNestedRuns ==
    /\ []C15_LinkedAreNested
    /\ [](ListBuilt => sublists = <<>>)
    /\ [][C15_LinkStep]_vars

\* a list is built from 3 elements: the first is followed by one with an
\* equal end and has no link, the second by one with a smaller end and has one
C15_Witness ==
    /\ pc = "built"
    /\ contained = << <<0, 2>>, None, <<2, 3>>, None >>
    /\ intervals[1].end = intervals[2].end
    /\ intervals[3].end < intervals[2].end

\* the positions in the range of the present link at index i of `contained`
LinkRange(i) == contained[i][1]..(contained[i][2] - 1)

\* C16: a list built from N valid elements has N elements and N + 1 links;
\* link 0 is present and its range starts at 0 (it is (0,0) for an empty
\* Vec); a present link i >= 1 has a non-empty range that starts after
\* position i - 1 and ends at or before N; the ranges of the present links
\* are pairwise disjoint and cover 0..N, so each element is in one slice.
C16_LinksPartitionTheElements ==
    ListBuilt =>
        /\ Len(intervals) = Len(input)
        /\ Len(contained) = Len(input) + 1
        /\ At(contained, 0) # None
        /\ At(contained, 0)[1] = 0
        /\ input = <<>> => At(contained, 0) = <<0, 0>>
        /\ \A i \in 1..Len(intervals) :
              At(contained, i) # None =>
                  /\ At(contained, i)[1] < At(contained, i)[2]
                  /\ At(contained, i)[1] > i - 1
                  /\ At(contained, i)[2] <= Len(input)
        /\ \A i, j \in PresentLinks : i # j => LinkRange(i) \cap LinkRange(j) = {}
        /\ UNION {LinkRange(i) : i \in PresentLinks} = 0..(Len(input) - 1)

\* a list is built from 3 elements nested two deep: three slices of one
\* element each
C16_Witness ==
    /\ pc = "built"
    /\ contained = << <<0, 1>>, <<1, 2>>, <<2, 3>>, None >>

\* C17: overlaps(r) yields elements in strictly increasing storage position:
\* every yielded position is before the cursor, the cursor is within the
\* current slice, and the pending queue holds non-empty disjoint ranges in
\* increasing order of position that all lie after the current slice; so no
\* position is visited twice.
C17_OverlapsPositionsIncrease ==
    (OverlapsCreated /\ panic = NoPanic) =>
        /\ \A k \in 1..(Len(ov_out) - 1) : ov_out[k] < ov_out[k + 1]
        /\ \A k \in 1..Len(ov_out) : ov_out[k] < ov.current_pos
        /\ ov.current_pos <= ov.current_end
        /\ \A j \in 1..Len(ov.sublists) :
              /\ ov.sublists[j][1] < ov.sublists[j][2]
              /\ ov.sublists[j][1] >= ov.current_end
        /\ \A j \in 1..(Len(ov.sublists) - 1) :
              ov.sublists[j][2] <= ov.sublists[j + 1][1]

\* overlaps(r) has yielded the two owners of the top-level slice and holds
\* their two sub-slices in its queue
C17_Witness ==
    /\ pc = "overlaps"
    /\ ov_out = <<0, 1>>
    /\ ov.current_pos = 2
    /\ ov.current_end = 2
    /\ ov.sublists = << <<2, 3>>, <<3, 4>> >>

\* a step of a caller who holds an iterator that has returned None: unless it
\* is the creation of the next iterator, it is a next() that returns None
\* again without a panic and leaves the iterator as it was
C18_AgainStep ==
    /\ (pc \in {"overlaps_end", "overlaps_again"} /\ pc' # "ordered") =>
          (pc' = "overlaps_again" /\ ov' = ov /\ ov_out' = ov_out /\ panic' = panic)
    /\ pc \in {"ordered_end", "ordered_again"} =>
          (pc' = "ordered_again" /\ oo' = oo /\ oo_out' = oo_out /\ panic' = panic)

\* C18: once overlaps(r) or overlaps_ordered(r) has returned None, every
\* later next() on the same iterator returns None again, does not panic and
\* leaves the iterator's state unchanged, also when the Overlaps iterator
\* stopped on an element whose start is >= r.end and not at the slice's end.
C18_NoneAgainAfterNone == [][C18_AgainStep]_vars

\* next() was called again on an Overlaps iterator that had yielded one
\* element and stopped on the following one, before the end of its slice
C18_Witness ==
    /\ pc = "overlaps_again"
    /\ Len(ov_out) = 1
    /\ ov.current_pos < ov.current_end
    /\ At(intervals, ov.current_pos).start >= range.end
====
